---------------------------- MODULE Spec2Model ----------------------------
(***************************************************************************)
(* FlutLock: update_app_build_gradle, the build-script patcher of          *)
(* src/src/flutter_signer/core/gradle.py, as a state machine over a small  *)
(* file system.  Build scripts are character strings; the regular          *)
(* expressions and string methods the function uses are defined here       *)
(* character by character, as Python's re and str compute them.  main() of *)
(* src/src/flutter_signer/main.py, which calls the patcher as one step of  *)
(* its workflow, is the specification SpecMain.                            *)
(***************************************************************************)
EXTENDS Integers, Sequences, FiniteSets, TLC

VARIABLES
    dirs,                  \* the directories that exist
    files,                 \* path -> text, for the files that exist
    pc,                    \* position of the invocation: idle, backup, write, done
    signing_config_name,   \* argument of the invocation in progress
    build_gradle_path,     \* local of the invocation; "" while not yet bound
    build_gradle_content,  \* local: the text read at line 70
    modified_content,      \* local: the text to be written at line 320
    result,                \* "none", "True", "False" or "raised"
    err,                   \* the exception raised, as the record of its attributes
    log,                   \* records the logger received during this invocation
    io,                    \* file opens of this invocation, in order
    pre,                   \* the files as they were when the invocation started
    calls,                 \* invocations started so far
    faults,                \* system calls that have failed so far
    main_pc,               \* position of main(); "none" when main() is not run
    args,                  \* the parsed command line of main()
    steps,                 \* the workflow steps main() has run, with their outcomes
    exit_code              \* what main() returned; -1 while it has not

\* the state of main(), main.py lines 330-537
main_vars == <<main_pc, args, steps, exit_code>>

vars == <<dirs, files, pc, signing_config_name, build_gradle_path,
          build_gradle_content, modified_content, result, err, log, io, pre, calls,
          faults, main_pc, args, steps, exit_code>>

-----------------------------------------------------------------------------
(* Bounds of the model *)

\* invocations of update_app_build_gradle in one behaviour
MaxCalls == 2

\* failing system calls (open, read, write) in one behaviour
MaxFaults == 1

-----------------------------------------------------------------------------
(* Python str and re primitives on character strings (positions from 1) *)

At(s, i) == IF 1 <= i /\ i <= Len(s) THEN SubSeq(s, i, i) ELSE ""

\* s[i-1:].startswith(p); the first character is looked at first
StartsAt(s, i, p) ==
    /\ i >= 1
    /\ i + Len(p) - 1 <= Len(s)
    /\ Len(p) = 0 \/ SubSeq(s, i, i) = SubSeq(p, 1, 1)
    /\ SubSeq(s, i, i + Len(p) - 1) = p

\* p in s
Contains(s, p) ==
    LET m == Len(p)
    IN  \E i \in 1..(Len(s) - m + 1) : SubSeq(s, i, i + m - 1) = p

Min(S) == CHOOSE x \in S : \A y \in S : x <= y

\* the class \s of re, on the white space build scripts are written with
IsSpace(c) == c \in {" ", "\n", "\t", "\r"}

\* first position at or after i that holds no white space: where \s* stops
RECURSIVE SkipSpace(_, _)
SkipSpace(s, i) == IF IsSpace(At(s, i)) THEN SkipSpace(s, i + 1) ELSE i

\* first position at or after i that holds character c; 0 if none
IndexFrom(s, c, i) ==
    LET P == {k \in i..Len(s) : At(s, k) = c}
    IN  IF P = {} THEN 0 ELSE Min(P)

\* str.replace picks occurrences left to right, skipping those that overlap
\* the one picked before
RECURSIVE PickFrom(_, _, _)
PickFrom(O, m, pos) ==
    LET C == {i \in O : i >= pos}
    IN  IF C = {} THEN {}
        ELSE LET f == Min(C) IN {f} \cup PickFrom(O, m, f + m)

\* a string that has a border (a proper prefix equal to a suffix) can overlap
\* itself; any other string cannot, and then every occurrence is picked
HasBorder(p) ==
    \E k \in 1..(Len(p) - 1) : SubSeq(p, 1, k) = SubSeq(p, Len(p) - k + 1, Len(p))

Occurrences(s, old) ==
    LET m == Len(old)
        O == {i \in 1..(Len(s) - m + 1) : SubSeq(s, i, i + m - 1) = old}
    IN  IF HasBorder(old) THEN PickFrom(O, Len(old), 1) ELSE O

\* the text str.replace emits for the characters lo..hi of s
RECURSIVE ReplaceRange(_, _, _, _, _, _)
ReplaceRange(s, S, m, new, lo, hi) ==
    IF lo > hi THEN ""
    ELSE IF m > 0 /\ \A p \in S : p + m <= lo \/ p > hi
         THEN SubSeq(s, lo, hi)
    ELSE IF lo = hi
         THEN (IF lo \in S THEN new ELSE "")
              \o (IF m > 0 /\ \E p \in S : p <= lo /\ lo < p + m THEN "" ELSE At(s, lo))
    ELSE LET mid == (lo + hi) \div 2
         IN  ReplaceRange(s, S, m, new, lo, mid)
             \o ReplaceRange(s, S, m, new, mid + 1, hi)

\* s.replace(old, new): every occurrence; an empty old matches before every
\* character and at the end
StrReplace(s, old, new) ==
    IF old = ""
    THEN ReplaceRange(s, 1..Len(s), 0, new, 1, Len(s)) \o new
    ELSE ReplaceRange(s, Occurrences(s, old), Len(old), new, 1, Len(s))

-----------------------------------------------------------------------------
(* The text fragments update_app_build_gradle renders (gradle.py 84-215) *)

\* gradle.py lines 93-102
kotlin_patterns ==
    { "val ", "import kotlin.", "= listOf", ": String", "buildTypes {",
      "plugins {", "android {", "implementation(platform" }

\* gradle.py line 104
is_pure_kotlin(content) == \E pattern \in kotlin_patterns : Contains(content, pattern)

\* gradle.py lines 52-57, 84, 108: which of the three renderings is chosen
Dialect(is_kotlin_dsl, content) ==
    IF is_kotlin_dsl
    THEN (IF is_pure_kotlin(content) THEN "pure" ELSE "hybrid")
    ELSE "groovy"

\* gradle.py lines 110-159
PureKeyPropertiesCode(name) ==
    "\n"
    \o "    // Load key.properties file\n"
    \o "    import java.util.Properties\n"
    \o "    import java.io.FileInputStream\n"
    \o "\n"
    \o "    // Function to safely load properties\n"
    \o "    fun loadProperties(file: java.io.File): Properties {\n"
    \o "        val properties = Properties()\n"
    \o "        if (file.isFile) { // Check if it's a file and exists\n"
    \o "            try {\n"
    \o "                FileInputStream(file).use { fis ->\n"
    \o "                    properties.load(fis)\n"
    \o "                }\n"
    \o "            } catch (e: Exception) {\n"
    \o "                // Log the exception or handle it as needed\n"
    \o "                logger.warn(\"Could not load properties file ${file.name}: ${e.message}\")\n"
    \o "            }\n"
    \o "        } else {\n"
    \o "            logger.warn(\"Properties file not found: ${file.absolutePath}\")\n"
    \o "        }\n"
    \o "        return properties\n"
    \o "    }\n"
    \o "\n"
    \o "    // Load keystore properties\n"
    \o "    val keystorePropertiesFile = rootProject.file(\"key.properties\")\n"
    \o "    val keystoreProperties = loadProperties(keystorePropertiesFile)\n"
    \o "\n"
    \o "    // Define signing configurations\n"
    \o "    signingConfigs {\n"
    \o "        // Creates a signing configuration named '" \o name \o "'\n"
    \o "        create(\"" \o name \o "\") {\n"
    \o "            // Use getProperty which returns null if key doesn't exist\n"
    \o "            val storeFilePath = keystoreProperties.getProperty(\"storeFile\")\n"
    \o "            val storePass = keystoreProperties.getProperty(\"storePassword\")\n"
    \o "            val alias = keystoreProperties.getProperty(\"keyAlias\")\n"
    \o "            val keyPass = keystoreProperties.getProperty(\"keyPassword\")\n"
    \o "\n"
    \o "            // Only configure if all properties were found\n"
    \o "            if (storeFilePath != null && storePass != null && alias != null && keyPass != null) {\n"
    \o "                // Use project.file to resolve the path relative to the project\n"
    \o "                storeFile = project.file(storeFilePath)\n"
    \o "                storePassword = storePass\n"
    \o "                keyAlias = alias\n"
    \o "                keyPassword = keyPass\n"
    \o "            } else {\n"
    \o "                logger.warn(\"Release signing configuration in build.gradle.kts is missing details from key.properties. Release builds may fail or use debug signing.\")\n"
    \o "            }\n"
    \o "        }\n"
    \o "    }\n"

\* gradle.py lines 161-171
PureReleaseConfig(name) ==
    "\n"
    \o "            // Apply the '" \o name \o "' signing configuration defined above\n"
    \o "            // Make sure 'signingConfigs." \o name \o "' actually exists and is configured\n"
    \o "            if (signingConfigs.findByName(\"" \o name \o "\")?.storeFile != null) {\n"
    \o "                signingConfig = signingConfigs.getByName(\"" \o name \o "\")\n"
    \o "            } else {\n"
    \o "                logger.warn(\"Signing config '" \o name \o "' not fully configured (check key.properties). Release build may use debug signing.\")\n"
    \o "                // Fallback to debug signing explicitly if desired/needed\n"
    \o "                // signingConfig = signingConfigs.getByName(\"debug\")\n"
    \o "            }\n"

\* gradle.py lines 174-190
HybridKeyPropertiesCode(name) ==
    "\n"
    \o "    // Load key.properties file\n"
    \o "    def keystoreProperties = new Properties()\n"
    \o "    def keystorePropertiesFile = rootProject.file('key.properties')\n"
    \o "    if (keystorePropertiesFile.exists()) {\n"
    \o "        keystoreProperties.load(new FileInputStream(keystorePropertiesFile))\n"
    \o "    }\n"
    \o "    \n"
    \o "    signingConfigs {\n"
    \o "        " \o name \o " {\n"
    \o "            keyAlias keystoreProperties['keyAlias']\n"
    \o "            keyPassword keystoreProperties['keyPassword']\n"
    \o "            storeFile keystoreProperties['storeFile'] ? file(keystoreProperties['storeFile']) : null\n"
    \o "            storePassword keystoreProperties['storePassword']\n"
    \o "        }\n"
    \o "    }\n"

\* gradle.py lines 191-193
HybridReleaseConfig(name) ==
    "\n"
    \o "            signingConfig signingConfigs." \o name \o "\n"

\* gradle.py lines 196-212
GroovyKeyPropertiesCode(name) ==
    "\n"
    \o "    // Load key.properties file\n"
    \o "    def keystoreProperties = new Properties()\n"
    \o "    def keystorePropertiesFile = rootProject.file('key.properties')\n"
    \o "    if (keystorePropertiesFile.exists()) {\n"
    \o "        keystoreProperties.load(new FileInputStream(keystorePropertiesFile))\n"
    \o "    }\n"
    \o "    \n"
    \o "    signingConfigs {\n"
    \o "        " \o name \o " {\n"
    \o "            keyAlias keystoreProperties['keyAlias']\n"
    \o "            keyPassword keystoreProperties['keyPassword']\n"
    \o "            storeFile file(keystoreProperties['storeFile'])\n"
    \o "            storePassword keystoreProperties['storePassword']\n"
    \o "        }\n"
    \o "    }\n"

\* gradle.py lines 213-215
GroovyReleaseConfig(name) ==
    "\n"
    \o "            signingConfig signingConfigs." \o name \o "\n"

key_properties_code(dialect, name) ==
    CASE dialect = "pure"   -> PureKeyPropertiesCode(name)
      [] dialect = "hybrid" -> HybridKeyPropertiesCode(name)
      [] OTHER              -> GroovyKeyPropertiesCode(name)

release_config(dialect, name) ==
    CASE dialect = "pure"   -> PureReleaseConfig(name)
      [] dialect = "hybrid" -> HybridReleaseConfig(name)
      [] OTHER              -> GroovyReleaseConfig(name)

-----------------------------------------------------------------------------
(* The regular expressions of gradle.py 217-306 *)

\* gradle.py line 77: the marker of an already patched file
HasSigningConfigs(content) == Contains(content, "signingConfigs {")

\* r"android\s*\{" matched at i: the position after the match, 0 if no match
AndroidMatchAt(s, i) ==
    IF StartsAt(s, i, "android")
    THEN LET j == SkipSpace(s, i + 7)
         IN  IF At(s, j) = "{" THEN j + 1 ELSE 0
    ELSE 0

\* AndroidInsertPos as it would be if the last match of the pattern were taken
AndroidInsertPosLast(s) ==
    LET M == {i \in 1..Len(s) : AndroidMatchAt(s, i) > 0}
    IN  IF M = {} THEN -1
        ELSE AndroidMatchAt(s, CHOOSE i \in M : \A j \in M : j <= i) - 1

\* gradle.py lines 218-221: insert_pos as the number of characters before it
\* (match.end()); -1 when re.search finds nothing
AndroidInsertPos(s) ==
    LET M == {i \in 1..Len(s) : AndroidMatchAt(s, i) > 0}
    IN  IF M = {} THEN -1 ELSE AndroidMatchAt(s, Min(M)) - 1

\* position of the "{" that r"release\s*\{" reaches from i; 0 if no match
ReleaseOpenAt(s, i) ==
    IF StartsAt(s, i, "release")
    THEN LET j == SkipSpace(s, i + 7)
         IN  IF At(s, j) = "{" THEN j ELSE 0
    ELSE 0

\* position of the "{" that r"getByName\s*\(\s*[\"']release[\"']\s*\)\s*\{"
\* reaches from i; 0 if no match
GetByNameOpenAt(s, i) ==
    IF StartsAt(s, i, "getByName")
    THEN LET a == SkipSpace(s, i + 9)
         IN  IF At(s, a) # "(" THEN 0
             ELSE LET b == SkipSpace(s, a + 1)
                  IN  IF ~ (At(s, b) \in {"\"", "'"} /\ StartsAt(s, b + 1, "release")
                            /\ At(s, b + 8) \in {"\"", "'"})
                      THEN 0
                      ELSE LET c == SkipSpace(s, b + 9)
                           IN  IF At(s, c) # ")" THEN 0
                               ELSE LET d == SkipSpace(s, c + 1)
                                    IN  IF At(s, d) = "{" THEN d ELSE 0
    ELSE 0

NoMatch == [found |-> FALSE, block |-> ""]

\* group(1) of <opener>([^}]*)\} for the leftmost opener that is followed by
\* a "}" somewhere: [^}]* runs to the first "}" whatever it passes
BlockSearch(s, Opens) ==
    LET close(o) == IndexFrom(s, "}", o + 1)
        M == {o \in Opens : close(o) > 0}
    IN  IF M = {} THEN NoMatch
        ELSE LET o == Min(M)
             IN  [found |-> TRUE, block |-> SubSeq(s, o + 1, close(o) - 1)]

\* gradle.py lines 238-239: re.search(r"release\s*\{([^}]*)\}", modified_content)
ReleaseSearch(s) ==
    BlockSearch(s, {ReleaseOpenAt(s, i) : i \in 1..Len(s)} \ {0})

\* GetByNameSearch as it would be if lines 269-301 were not there
GetByNameSearchNever(s) == NoMatch

\* gradle.py lines 270-271
GetByNameSearch(s) ==
    BlockSearch(s, {GetByNameOpenAt(s, i) : i \in 1..Len(s)} \ {0})

\* last position of a match that begins at i, 0 if none, for
\*   "kotlin": r"signingConfig\s*=\s*signingConfigs\.getByName\([\"']debug[\"']\)"
\*   "groovy": r"signingConfig\s+signingConfigs\.debug"
\*   "todo":   r"//\s*TODO:.*signing config.*\n"
MatchEnd(kind, s, i) ==
    CASE kind = "kotlin" ->
           IF ~ StartsAt(s, i, "signingConfig") THEN 0
           ELSE LET a == SkipSpace(s, i + 13)
                IN  IF At(s, a) # "=" THEN 0
                    ELSE LET b == SkipSpace(s, a + 1)
                         IN  IF /\ StartsAt(s, b, "signingConfigs.getByName(")
                                /\ At(s, b + 25) \in {"\"", "'"}
                                /\ StartsAt(s, b + 26, "debug")
                                /\ At(s, b + 31) \in {"\"", "'"}
                                /\ At(s, b + 32) = ")"
                             THEN b + 32 ELSE 0
      [] kind = "groovy" ->
           IF ~ StartsAt(s, i, "signingConfig") THEN 0
           ELSE LET a == SkipSpace(s, i + 13)
                IN  IF a > i + 13 /\ StartsAt(s, a, "signingConfigs.debug")
                    THEN a + 19 ELSE 0
      [] OTHER ->
           IF ~ StartsAt(s, i, "//") THEN 0
           ELSE LET a == SkipSpace(s, i + 2)
                IN  IF ~ StartsAt(s, a, "TODO:") THEN 0
                    ELSE LET e == IndexFrom(s, "\n", a + 5)
                         IN  IF e > 0 /\ Contains(SubSeq(s, a + 5, e - 1), "signing config")
                             THEN e ELSE 0

\* re.sub(pattern, repl, s) from position pos on: leftmost matches, each
\* replaced, the scan going on after the match
RECURSIVE ReSubFrom(_, _, _, _)
ReSubFrom(kind, repl, s, pos) ==
    LET M == {i \in pos..Len(s) : MatchEnd(kind, s, i) > 0}
    IN  IF M = {} THEN SubSeq(s, pos, Len(s))
        ELSE LET i == Min(M)
             IN  SubSeq(s, pos, i - 1) \o repl
                 \o ReSubFrom(kind, repl, s, MatchEnd(kind, s, i) + 1)

ReSub(kind, repl, s) == ReSubFrom(kind, repl, s, 1)

-----------------------------------------------------------------------------
(* The document transformation of gradle.py 217-306 *)

\* gradle.py lines 223-227
InsertAfterAndroid(content, code) ==
    LET insert_pos == AndroidInsertPos(content)
    IN  SubSeq(content, 1, insert_pos) \o code
        \o SubSeq(content, insert_pos + 1, Len(content))

\* gradle.py lines 244-265 (and 277-299): the new contents of the block
ModifiedRelease(release_block, dialect, name) ==
    IF Contains(release_block, "signingConfig")
    THEN ReSub("todo", "",
               IF dialect = "pure"
               THEN ReSub("kotlin",
                          "signingConfig = signingConfigs.getByName(\"" \o name \o "\")",
                          release_block)
               ELSE ReSub("groovy", "signingConfig signingConfigs." \o name,
                          release_block))
    ELSE release_block \o release_config(dialect, name)

\* gradle.py lines 238-306; wired is FALSE on the warning path of 303-306
WireRelease(content, dialect, name) ==
    LET m == ReleaseSearch(content)
    IN  IF m.found
        THEN [wired |-> TRUE,
              text |-> StrReplace(content, m.block,
                                  ModifiedRelease(m.block, dialect, name))]
        ELSE LET g == GetByNameSearch(content)
             IN  IF g.found
                 THEN [wired |-> TRUE,
                       text |-> StrReplace(content, g.block,
                                           ModifiedRelease(g.block, dialect, name))]
                 ELSE [wired |-> FALSE, text |-> content]

\* gradle.py lines 84-306 for a text in which the android block is found
Patch(content, is_kotlin_dsl, name) ==
    LET dialect == Dialect(is_kotlin_dsl, content)
    IN  WireRelease(InsertAfterAndroid(content, key_properties_code(dialect, name)),
                    dialect, name)

-----------------------------------------------------------------------------
(* Paths, exceptions and log records *)

\* os.path.join of two relative components
PathJoin(a, b) == a \o "/" \o b

\* the flutter_project_path every invocation is given
ProjectPath == "proj"

android_dir == PathJoin(ProjectPath, "android")
app_dir == PathJoin(android_dir, "app")
key_properties_path == PathJoin(android_dir, "key.properties")
gradle_kts_path == PathJoin(app_dir, "build.gradle.kts")
gradle_path == PathJoin(app_dir, "build.gradle")

\* BackupPath as it would be if every invocation kept its backup in one place
SharedBackupPath(path) == gradle_path \o ".bak"

BackupPath(path) == path \o ".bak"

\* os.path.exists
Exists(path) == path \in dirs \/ path \in DOMAIN files

\* open(path, "r", encoding="utf-8").read(): text mode hands every line end
\* ("\r\n", "\r") over as "\n"
ReadText(bytes) ==
    IF \A i \in 1..Len(bytes) : SubSeq(bytes, i, i) # "\r"
    THEN bytes
    ELSE StrReplace(StrReplace(bytes, "\r\n", "\n"), "\r", "\n")

\* the files after open(path, "w") and a write of text have succeeded (text
\* mode writes "\n" as os.linesep, which is "\n" on the POSIX systems modelled)
WriteFile(fs, path, text) ==
    [p \in DOMAIN fs \cup {path} |-> IF p = path THEN text ELSE fs[p]]

\* exceptions.py lines 14-18 and 126-137: the attributes a GradleError has.
\* file_path None is written "" here (line 129 tests its truth value only).
GradleError(message, details, file_path) ==
    [type |-> "GradleError",
     message |-> message,
     details |-> details,
     suggestions |->
        << IF file_path # ""
           THEN "Check if " \o file_path \o " exists and is readable/writable"
           ELSE "Check if the Gradle file exists and is readable/writable",
           "Ensure the Gradle file has a standard structure",
           "Verify that the android { } block exists in the file",
           "Consider manually adding the signing configuration if automatic modification fails" >>]

NoError == [type |-> "None"]

Log(level, msg) == [level |-> level, msg |-> msg]

Open(mode, path, ok) == [mode |-> mode, path |-> path, ok |-> ok]

\* str(e) of the exception each failing system call raises
OSErrorText == "[Errno 13] Permission denied"
DecodeErrorText == "'utf-8' codec can't decode byte 0xff in position 0: invalid start byte"
DiskFullText == "[Errno 28] No space left on device"

-----------------------------------------------------------------------------
(* update_app_build_gradle, gradle.py lines 12-342 *)

\* the invocation ends by raising e
Raise(e, logged) ==
    /\ pc' = "done"
    /\ result' = "raised"
    /\ err' = e
    /\ log' = logged

\* the invocation ends by returning value
Return(value, logged) ==
    /\ pc' = "done"
    /\ result' = value
    /\ err' = NoError
    /\ log' = logged

\* gradle.py lines 28-39: android/app is no directory
MissingAppDir ==
    LET error_msg == "App directory not found in " \o android_dir
    IN  /\ app_dir \notin dirs
        /\ Raise(GradleError(error_msg,
                   "The android/app directory structure is required for Flutter Android projects.",
                   app_dir),
                 << Log("error", error_msg),
                    Log("info", "Make sure this is a valid Flutter project with an android/app directory") >>)
        /\ io' = << >>
        /\ build_gradle_path' = ""
        /\ build_gradle_content' = ""
        /\ modified_content' = ""
        /\ UNCHANGED <<files, faults>>

\* MissingKeyProperties as it would be if a missing key.properties were
\* treated like the missing directory before it and the missing build file
\* after it
MissingKeyPropertiesRaises ==
    /\ app_dir \in dirs
    /\ ~ Exists(key_properties_path)
    /\ Raise(GradleError("key.properties file not found", "", key_properties_path),
             << Log("error", "key.properties file not found") >>)
    /\ io' = << >>
    /\ build_gradle_path' = ""
    /\ build_gradle_content' = ""
    /\ modified_content' = ""
    /\ UNCHANGED <<files, faults>>

\* gradle.py lines 41-46: no key.properties
MissingKeyProperties ==
    /\ app_dir \in dirs
    /\ ~ Exists(key_properties_path)
    /\ Return("False",
              << Log("warning", "key.properties file not found. Skipping build.gradle.kts modification."),
                 Log("info", "Create key.properties first using create_key_properties function.") >>)
    /\ io' = << >>
    /\ build_gradle_path' = ""
    /\ build_gradle_content' = ""
    /\ modified_content' = ""
    /\ UNCHANGED <<files, faults>>

\* gradle.py lines 48-65: neither build file exists
MissingBuildFile ==
    LET error_msg == "Neither build.gradle.kts nor build.gradle found in " \o app_dir
    IN  /\ app_dir \in dirs
        /\ Exists(key_properties_path)
        /\ ~ Exists(gradle_kts_path)
        /\ ~ Exists(gradle_path)
        /\ Raise(GradleError(error_msg,
                   "A valid build.gradle or build.gradle.kts file is required for Android Gradle projects.",
                   app_dir),
                 << Log("error", error_msg) >>)
        /\ io' = << >>
        /\ build_gradle_path' = ""
        /\ build_gradle_content' = ""
        /\ modified_content' = ""
        /\ UNCHANGED <<files, faults>>

\* gradle.py lines 52-57: is_kotlin_dsl goes with the build file chosen
is_kotlin_dsl(path) == Len(path) >= 4 /\ SubSeq(path, Len(path) - 3, Len(path)) = ".kts"

\* gradle.py lines 52-57
ChosenPath == IF Exists(gradle_kts_path) THEN gradle_kts_path ELSE gradle_path

\* ReadFails as it would be if line 333 logged the exception it catches and
\* returned False
ReadFailsSwallowed(path) ==
    \E kind \in {"OSError", "UnicodeDecodeError"} :
        /\ faults < MaxFaults
        /\ faults' = faults + 1
        /\ io' = << Open("r", path, FALSE) >>
        /\ build_gradle_path' = path
        /\ IF kind = "OSError"
           THEN Raise(GradleError("Could not read " \o path, OSErrorText, path),
                      << Log("error", "Could not read " \o path) >>)
           ELSE Return("False",
                       << Log("error", "Unexpected error during build.gradle modification"),
                          Log("error", "Error details: " \o DecodeErrorText) >>)
        /\ build_gradle_content' = ""
        /\ modified_content' = ""
        /\ UNCHANGED files

\* gradle.py lines 67-74 and 333-342: open() or read() fails.  An OSError is
\* caught at line 71; a UnicodeDecodeError is no OSError and reaches line 333.
ReadFails(path) ==
    \E kind \in {"OSError", "UnicodeDecodeError"} :
        /\ faults < MaxFaults
        /\ faults' = faults + 1
        /\ io' = << Open("r", path, FALSE) >>
        /\ build_gradle_path' = path
        /\ IF kind = "OSError"
           THEN Raise(GradleError("Could not read " \o path, OSErrorText, path),
                      << Log("error", "Could not read " \o path) >>)
           ELSE Raise(GradleError("Unexpected error during build.gradle modification",
                                  DecodeErrorText, path),
                      << Log("error", "Unexpected error during build.gradle modification"),
                         Log("error", "Error details: " \o DecodeErrorText) >>)
        /\ build_gradle_content' = ""
        /\ modified_content' = ""
        /\ UNCHANGED files

\* AlreadyPresent as it would be if the backup of lines 308-315 were taken
\* before the marker is looked for
AlreadyPresentAfterBackup ==
    /\ Return("True",
              << Log("info", "Signing configuration already exists in build.gradle. Skipping modification.") >>)
    /\ modified_content' = ""
    /\ files' = WriteFile(files, BackupPath(build_gradle_path'), build_gradle_content')

\* gradle.py lines 76-81: the signing configuration is already there
AlreadyPresent ==
    /\ Return("True",
              << Log("info", "Signing configuration already exists in build.gradle. Skipping modification.") >>)
    /\ modified_content' = ""
    /\ UNCHANGED files

\* MissingAndroidBlock as it would be if the backup of lines 308-315 were
\* taken before the android block is looked for
MissingAndroidBlockAfterBackup(path) ==
    LET error_msg == "Could not find android { block in " \o path
    IN  /\ Raise(GradleError(error_msg,
                   "The android { } block is required in the build.gradle file.", path),
                 << Log("error", error_msg) >>)
        /\ modified_content' = ""
        /\ files' = WriteFile(files, BackupPath(path), ReadText(files[path]))

\* gradle.py lines 228-235: no android block
MissingAndroidBlock(path) ==
    LET error_msg == "Could not find android { block in " \o path
    IN  /\ Raise(GradleError(error_msg,
                   "The android { } block is required in the build.gradle file.", path),
                 << Log("error", error_msg) >>)
        /\ modified_content' = ""
        /\ UNCHANGED files

\* Patched as it would be if a release block that is not found were fatal
PatchedUnlessUnwired(path, content, name) ==
    LET p == Patch(content, is_kotlin_dsl(path), name)
        error_msg == "Could not find release { block in " \o path
    IN  /\ modified_content' = p.text
        /\ IF p.wired
           THEN /\ pc' = "backup"
                /\ result' = "none"
                /\ err' = NoError
                /\ log' = << >>
           ELSE Raise(GradleError(error_msg, "", path), << Log("error", error_msg) >>)
        /\ UNCHANGED files

\* gradle.py lines 83-306: the new text is computed; the writes follow
Patched(path, content, name) ==
    /\ \E p \in {Patch(content, is_kotlin_dsl(path), name)} :
          /\ modified_content' = p.text
          /\ log' = IF p.wired THEN << >>
                    ELSE << Log("warning", "Could not find release { block in " \o path),
                            Log("info", "Created signing config but couldn't automatically apply it to release build type") >>
    /\ pc' = "backup"
    /\ result' = "none"
    /\ err' = NoError
    /\ UNCHANGED files

\* gradle.py lines 67-306 when the read succeeds
ReadSucceeds(path, content, name) ==
    /\ io' = << Open("r", path, TRUE) >>
    /\ build_gradle_path' = path
    /\ build_gradle_content' = content
    /\ IF HasSigningConfigs(content) THEN AlreadyPresent
       ELSE IF AndroidInsertPos(content) < 0 THEN MissingAndroidBlock(path)
       ELSE Patched(path, content, name)
    /\ UNCHANGED faults

\* the caller invokes update_app_build_gradle(ProjectPath, None, name); the
\* function runs up to its first write
Call(name) ==
    /\ pc \in {"idle", "done"}
    /\ calls < MaxCalls
    /\ calls' = calls + 1
    /\ signing_config_name' = name
    /\ pre' = files
    /\ \/ MissingAppDir
       \/ MissingKeyProperties
       \/ MissingBuildFile
       \/ /\ app_dir \in dirs
          /\ Exists(key_properties_path)
          /\ Exists(gradle_kts_path) \/ Exists(gradle_path)
          /\ \/ ReadFails(ChosenPath)
             \/ ReadSucceeds(ChosenPath, ReadText(files[ChosenPath]), name)
    /\ UNCHANGED <<dirs, main_vars>>

\* BackupText as it would be if line 312 wrote the text of line 320
BackupTextPatched == modified_content

\* gradle.py line 312: what the backup is written from
BackupText == build_gradle_content

\* WriteBackup as it would be if a backup that cannot be written ended the
\* invocation with GradleError
WriteBackupOrRaise ==
    /\ pc = "backup"
    /\ LET backup_path == BackupPath(build_gradle_path)
       IN  \/ /\ files' = WriteFile(files, backup_path, BackupText)
              /\ UNCHANGED <<faults, result, err>>
              /\ io' = Append(io, Open("w", backup_path, TRUE))
              /\ log' = Append(log, Log("debug", "Created backup of build.gradle at " \o backup_path))
              /\ pc' = "write"
           \/ /\ faults < MaxFaults
              /\ faults' = faults + 1
              /\ \/ UNCHANGED files
                 \/ files' = WriteFile(files, backup_path, "")
              /\ io' = Append(io, Open("w", backup_path, FALSE))
              /\ Raise(GradleError("Failed to create backup of build.gradle", OSErrorText,
                                   build_gradle_path),
                       Append(log, Log("error", "Failed to create backup of build.gradle")))
    /\ UNCHANGED <<dirs, signing_config_name, build_gradle_path, build_gradle_content,
                   modified_content, pre, calls, main_vars>>

\* gradle.py lines 308-315: the backup, best effort.  A write that fails after
\* open() has truncated the file leaves it empty.
WriteBackup ==
    /\ pc = "backup"
    /\ LET backup_path == BackupPath(build_gradle_path)
       IN  \/ /\ files' = WriteFile(files, backup_path, BackupText)
              /\ UNCHANGED faults
              /\ io' = Append(io, Open("w", backup_path, TRUE))
              /\ log' = Append(log, Log("debug", "Created backup of build.gradle at " \o backup_path))
           \/ /\ faults < MaxFaults
              /\ faults' = faults + 1
              /\ \/ UNCHANGED files
                 \/ files' = WriteFile(files, backup_path, "")
              /\ io' = Append(io, Open("w", backup_path, FALSE))
              /\ log' = Append(log, Log("warning", "Failed to create backup of build.gradle: " \o OSErrorText))
    /\ pc' = "write"
    /\ UNCHANGED <<dirs, signing_config_name, build_gradle_path, build_gradle_content,
                   modified_content, result, err, pre, calls, main_vars>>

\* gradle.py lines 317-328: the build file is written, or GradleError is raised
WritePrimary ==
    /\ pc = "write"
    /\ \/ /\ files' = WriteFile(files, build_gradle_path, modified_content)
          /\ UNCHANGED faults
          /\ io' = Append(io, Open("w", build_gradle_path, TRUE))
          /\ Return("True",
                    Append(log, Log("info", "Updated " \o build_gradle_path \o " with "
                                            \o signing_config_name \o " signing configuration")))
       \/ /\ faults < MaxFaults
          /\ faults' = faults + 1
          /\ \/ UNCHANGED files
             \/ files' = WriteFile(files, build_gradle_path, "")
          /\ io' = Append(io, Open("w", build_gradle_path, FALSE))
          /\ Raise(GradleError("Failed to write to " \o build_gradle_path, DiskFullText,
                               build_gradle_path),
                   Append(log, Log("error", "Failed to write to " \o build_gradle_path)))
    /\ UNCHANGED <<dirs, signing_config_name, build_gradle_path, build_gradle_content,
                   modified_content, pre, calls, main_vars>>

\* update_app_build_gradle is called by a caller other than main()
NoArgs == [only_update_gradle |-> FALSE]

MainNotRun ==
    /\ main_pc = "none"
    /\ args = NoArgs
    /\ steps = << >>
    /\ exit_code = -1

-----------------------------------------------------------------------------
(* The projects update_app_build_gradle is run on *)

\* signing_config_name: the default of line 12, the name of
\* tests/test_custom_signing_config.py line 111, and a name that ends as the
\* default does
Names == {"release", "production", "prerelease"}

\* bodies of the release block, after the fixtures of tests/test_flutlock.py
\* 300-304 and 358-362 and tests/test_custom_signing_config.py 55-58, 86-89
GroovyDebugBody == "\n            signingConfig signingConfigs.debug\n        "
KotlinDebugBody == "\n            signingConfig = signingConfigs.getByName(\"debug\")\n        "
TodoComment == "\n            // TODO: Add your own signing config for the release build."
PlainBody == "\n            minifyEnabled false\n        "

BlankBodies == {"", "\n        "}

Bodies ==
    { GroovyDebugBody, KotlinDebugBody,
      TodoComment \o GroovyDebugBody, TodoComment \o KotlinDebugBody,
      PlainBody }

\* a build script of the shape of those fixtures
Document(android_open, build_types_open, release_open, body) ==
    android_open \o "\n    " \o build_types_open \o "\n        "
    \o release_open \o body \o "}\n    }\n}\n"

NoAndroidDocument == "flutter {\n    source '../..'\n}\n"
NoReleaseDocument == "android {\n    compileSdkVersion 31\n}\n"
MarkedDocument == "android {\n    signingConfigs {\n    }\n}\n"
CrlfDocument ==
    "android {\r\n    buildTypes {\r\n        release {\r\n"
    \o "            signingConfig signingConfigs.debug\r\n        }\r\n    }\r\n}\r\n"

\* a release block that holds a block of its own before its signing reference
NestedBody ==
    "\n            ndk {\n                abiFilters 'arm64-v8a'\n            }"
    \o GroovyDebugBody
NestedDocument == Document("android {", "buildTypes {", "release {", NestedBody)

\* an android block that is opened and never closed
UnbalancedDocument == "android {\n    compileSdkVersion 31\n"

\* the build.gradle.kts of tests/test_flutlock.py 280-311, without the
\* second comment line and the flutter block
KotlinTemplateDocument ==
    "\nplugins {\n    id(\"com.android.application\")\n    id(\"kotlin-android\")\n}\n\n"
    \o "android {\n    namespace = \"com.example.example\"\n\n"
    \o "    defaultConfig {\n        applicationId = \"com.example.example\"\n    }\n\n"
    \o "    buildTypes {\n        release {" \o TodoComment \o KotlinDebugBody \o "}\n    }\n}\n"

\* a build script whose android block comes after an earlier, smaller one
LaterAndroidDocument ==
    "android {\n    compileSdkVersion 31\n}\n\n"
    \o Document("android {", "buildTypes {", "release {", GroovyDebugBody)

BlankDocuments ==
    { Document("android {", "buildTypes {", "release {", b) : b \in BlankBodies }

Documents ==
    { Document(o[1], o[2], r, b) :
        o \in {<<"android {", "buildTypes {">>, <<"android{", "buildTypes{">>},
        r \in {"release {", "getByName(\"release\") {"},
        b \in Bodies }
    \cup BlankDocuments
    \cup { NoAndroidDocument, NoReleaseDocument, MarkedDocument, CrlfDocument,
           NestedDocument, UnbalancedDocument, KotlinTemplateDocument,
           LaterAndroidDocument }

\* the documents the less common project layouts are tried with
FewDocuments ==
    { Document("android {", "buildTypes {", "release {", GroovyDebugBody),
      NoAndroidDocument, MarkedDocument, CrlfDocument }

KeyPropertiesText == "storePassword=test_password\nkeyPassword=test_password\nkeyAlias=upload\nstoreFile=../keystore.jks\n"

Layouts == {"gradle", "kts", "both", "nokey", "nobuild", "noapp"}

DirsOf(layout) ==
    {ProjectPath, android_dir} \cup (IF layout = "noapp" THEN {} ELSE {app_dir})

FilesOf(layout, doc) ==
    CASE layout = "gradle"  -> (key_properties_path :> KeyPropertiesText) @@ (gradle_path :> doc)
      [] layout = "kts"     -> (key_properties_path :> KeyPropertiesText) @@ (gradle_kts_path :> doc)
      [] layout = "both"    -> (key_properties_path :> KeyPropertiesText) @@ (gradle_kts_path :> doc)
                               @@ (gradle_path :> doc)
      [] layout = "nokey"   -> (gradle_path :> doc)
      [] OTHER              -> (key_properties_path :> KeyPropertiesText)

StaleBackup == "an older backup\n"

Init ==
    /\ \E layout \in Layouts, doc \in Documents, stale \in BOOLEAN :
          /\ layout \in {"gradle", "kts"} \/ doc \in FewDocuments
          /\ doc \in BlankDocuments => layout = "gradle"
          /\ doc = KotlinTemplateDocument => layout = "kts"
          /\ doc = LaterAndroidDocument => layout = "gradle"
          /\ stale => layout \in {"gradle", "kts", "nokey"} /\ doc \in FewDocuments
          /\ dirs = DirsOf(layout)
          /\ files = IF stale
                     THEN FilesOf(layout, doc)
                          @@ (BackupPath(IF layout = "kts" THEN gradle_kts_path ELSE gradle_path)
                              :> StaleBackup)
                     ELSE FilesOf(layout, doc)
    /\ pc = "idle"
    /\ signing_config_name = ""
    /\ build_gradle_path = ""
    /\ build_gradle_content = ""
    /\ modified_content = ""
    /\ result = "none"
    /\ err = NoError
    /\ log = << >>
    /\ io = << >>
    /\ pre = files
    /\ calls = 0
    /\ faults = 0
    /\ MainNotRun

Next ==
    \/ \E name \in Names : Call(name)
    \/ WriteBackup
    \/ WritePrimary

Spec == Init /\ [][Next]_vars

-----------------------------------------------------------------------------
(* Two projects, one invocation after another *)

\* the flutter_project_path of a second project (tests/test_custom_signing_config.py 164-166)
OtherProject == "other"

Projects == {ProjectPath, OtherProject}

\* gradle.py lines 28, 41, 49, 50 for any flutter_project_path
AppDirOf(project) == PathJoin(PathJoin(project, "android"), "app")
KeyPropertiesPathOf(project) == PathJoin(PathJoin(project, "android"), "key.properties")
GradleKtsPathOf(project) == PathJoin(AppDirOf(project), "build.gradle.kts")
GradlePathOf(project) == PathJoin(AppDirOf(project), "build.gradle")

\* the caller invokes update_app_build_gradle(project, None, name); the
\* function runs up to its first write (gradle.py lines 28-306)
CallIn(project, name) ==
    LET chosen == IF Exists(GradleKtsPathOf(project)) THEN GradleKtsPathOf(project)
                  ELSE GradlePathOf(project)
        no_app == "App directory not found in " \o PathJoin(project, "android")
        no_build == "Neither build.gradle.kts nor build.gradle found in " \o AppDirOf(project)
        Ended == /\ io' = << >>
                 /\ build_gradle_path' = ""
                 /\ build_gradle_content' = ""
                 /\ modified_content' = ""
                 /\ UNCHANGED <<files, faults>>
    IN  /\ pc \in {"idle", "done"}
        /\ calls < MaxCalls
        /\ calls' = calls + 1
        /\ signing_config_name' = name
        /\ pre' = files
        /\ IF AppDirOf(project) \notin dirs
           THEN /\ Raise(GradleError(no_app,
                           "The android/app directory structure is required for Flutter Android projects.",
                           AppDirOf(project)),
                         << Log("error", no_app),
                            Log("info", "Make sure this is a valid Flutter project with an android/app directory") >>)
                /\ Ended
           ELSE IF ~ Exists(KeyPropertiesPathOf(project))
           THEN /\ Return("False",
                          << Log("warning", "key.properties file not found. Skipping build.gradle.kts modification."),
                             Log("info", "Create key.properties first using create_key_properties function.") >>)
                /\ Ended
           ELSE IF ~ Exists(chosen)
           THEN /\ Raise(GradleError(no_build,
                           "A valid build.gradle or build.gradle.kts file is required for Android Gradle projects.",
                           AppDirOf(project)),
                         << Log("error", no_build) >>)
                /\ Ended
           ELSE \/ ReadFails(chosen)
                \/ ReadSucceeds(chosen, ReadText(files[chosen]), name)
        /\ UNCHANGED <<dirs, main_vars>>

\* build scripts of the shape of tests/test_custom_signing_config.py 40-66
TwoDocuments ==
    { Document("android {", "buildTypes {", "release {", b) : b \in {GroovyDebugBody, PlainBody} }

\* both projects are set up as lines 155-185 of the test set them up
InitTwo ==
    /\ \E doc \in TwoDocuments, other \in TwoDocuments :
          files = (KeyPropertiesPathOf(ProjectPath) :> KeyPropertiesText)
                  @@ (GradlePathOf(ProjectPath) :> doc)
                  @@ (KeyPropertiesPathOf(OtherProject) :> KeyPropertiesText)
                  @@ (GradlePathOf(OtherProject) :> other)
    /\ dirs = UNION { {project, PathJoin(project, "android"), AppDirOf(project)} :
                        project \in Projects }
    /\ pc = "idle"
    /\ signing_config_name = ""
    /\ build_gradle_path = ""
    /\ build_gradle_content = ""
    /\ modified_content = ""
    /\ result = "none"
    /\ err = NoError
    /\ log = << >>
    /\ io = << >>
    /\ pre = files
    /\ calls = 0
    /\ faults = 0
    /\ MainNotRun

NextTwo ==
    \/ \E project \in Projects, name \in Names : CallIn(project, name)
    \/ WriteBackup
    \/ WritePrimary

SpecTwo == InitTwo /\ [][NextTwo]_vars

-----------------------------------------------------------------------------
(* main(), main.py lines 330-537, run on the project ProjectPath *)

\* the variables update_app_build_gradle works on
gradle_vars == <<dirs, files, pc, signing_config_name, build_gradle_path,
                 build_gradle_content, modified_content, result, err, log, io, pre,
                 calls, faults>>

\* a workflow step main() has run: "ok" when it returned a true value,
\* "False" when it returned a false one, "raised" when it raised its error
Step(name, outcome) == [step |-> name, outcome |-> outcome]

\* main() returns code
MainExit(code) ==
    /\ main_pc' = "exit"
    /\ exit_code' = code

\* main.py lines 342-382: --config; a ConfigError, any other exception and a
\* global configuration that is not found all return 1
LoadConfig ==
    /\ main_pc = "config"
    /\ IF args.config
       THEN \E loaded \in BOOLEAN :
               /\ steps' = Append(steps, Step("config", IF loaded THEN "ok" ELSE "raised"))
               /\ IF loaded
                  THEN main_pc' = "only" /\ UNCHANGED exit_code
                  ELSE MainExit(1)
       ELSE main_pc' = "only" /\ UNCHANGED <<steps, exit_code>>
    /\ UNCHANGED <<args, gradle_vars>>

\* OnlyUpdateGradle as it would be if line 385 were not there
OnlyUpdateGradleNever ==
    /\ main_pc = "only"
    /\ main_pc' = "noninteractive"
    /\ UNCHANGED <<args, steps, exit_code, gradle_vars>>

\* main.py lines 384-391: --only-update-gradle goes to the updater at once
OnlyUpdateGradle ==
    /\ main_pc = "only"
    /\ main_pc' = IF args.only_update_gradle THEN "only_gradle" ELSE "noninteractive"
    /\ UNCHANGED <<args, steps, exit_code, gradle_vars>>

\* main.py lines 388-390 and 481-483: update_app_build_gradle(args.path, ...)
\* is entered; args.path is ProjectPath
MainCall ==
    /\ main_pc \in {"only_gradle", "gradle"}
    /\ pc = "idle"
    /\ Call(args.signing_config_name)

\* what main() sees of the call
GradleOutcome ==
    CASE result = "raised" -> "raised"
      [] result = "True"   -> "ok"
      [] OTHER             -> "False"

\* main.py lines 391-397: return 0, or 1 on GradleError
OnlyUpdateGradleReturns ==
    /\ main_pc = "only_gradle"
    /\ pc = "done"
    /\ steps' = Append(steps, Step("gradle", GradleOutcome))
    /\ MainExit(IF result = "raised" THEN 1 ELSE 0)
    /\ UNCHANGED <<args, gradle_vars>>

\* main.py lines 399-420: --non-interactive without --config needs the
\* password variables in the environment
NonInteractive ==
    /\ main_pc = "noninteractive"
    /\ IF args.non_interactive /\ ~ args.config
       THEN \E in_environment \in BOOLEAN :
               IF in_environment
               THEN main_pc' = "dependencies" /\ UNCHANGED exit_code
               ELSE MainExit(1)
       ELSE main_pc' = "dependencies" /\ UNCHANGED exit_code
    /\ UNCHANGED <<args, steps, gradle_vars>>

\* main.py lines 422-429: check_dependencies() returns True or raises
\* DependencyError (dependencies.py 52-54)
CheckDependencies ==
    /\ main_pc = "dependencies"
    /\ IF ~ args.skip_build
       THEN \E found \in BOOLEAN :
               /\ steps' = Append(steps, Step("dependencies", IF found THEN "ok" ELSE "raised"))
               /\ IF found
                  THEN main_pc' = "keystore" /\ UNCHANGED exit_code
                  ELSE MainExit(1)
       ELSE main_pc' = "keystore" /\ UNCHANGED <<steps, exit_code>>
    /\ UNCHANGED <<args, gradle_vars>>

\* main.py lines 456-459: the default place of the keystore
keystore_path ==
    IF args.keystore_path = "" THEN PathJoin(app_dir, "upload.keystore")
    ELSE args.keystore_path

KeystoreBytes == "keystore"

\* main.py lines 435-462, 470-476 and keystore.py: os.makedirs of android/app
\* for the default path, then generate_keystore() returns True, with the
\* keystore in place, or raises KeystoreError
GenerateKeystore ==
    /\ main_pc = "keystore"
    /\ dirs' = IF args.keystore_path = "" THEN dirs \cup {ProjectPath, android_dir, app_dir}
               ELSE dirs
    /\ \E generated \in BOOLEAN :
          /\ steps' = Append(steps, Step("keystore", IF generated THEN "ok" ELSE "raised"))
          /\ IF generated
             THEN /\ files' = WriteFile(files, keystore_path, KeystoreBytes)
                  /\ main_pc' = "properties"
                  /\ UNCHANGED exit_code
             ELSE /\ UNCHANGED files
                  /\ MainExit(1)
    /\ UNCHANGED <<args, pc, signing_config_name, build_gradle_path, build_gradle_content,
                   modified_content, result, err, log, io, pre, calls, faults>>

\* main.py lines 464-468 and 527-531, properties.py lines 29-104:
\* create_key_properties() writes android/key.properties and returns True, or
\* raises FlutLockError, which main() catches at line 527
CreateKeyProperties ==
    /\ main_pc = "properties"
    /\ IF android_dir \notin dirs
       THEN /\ steps' = Append(steps, Step("properties", "raised"))
            /\ MainExit(1)
            /\ UNCHANGED files
       ELSE \/ /\ files' = WriteFile(files, key_properties_path, KeyPropertiesText)
               /\ steps' = Append(steps, Step("properties", "ok"))
               /\ main_pc' = "update_gradle"
               /\ UNCHANGED exit_code
            \/ /\ \/ UNCHANGED files
                  \/ files' = WriteFile(files, key_properties_path, "")
               /\ steps' = Append(steps, Step("properties", "raised"))
               /\ MainExit(1)
    /\ UNCHANGED <<args, dirs, pc, signing_config_name, build_gradle_path,
                   build_gradle_content, modified_content, result, err, log, io, pre,
                   calls, faults>>

\* main.py lines 478-479: if args.update_gradle and not args.skip_build
UpdateGradle ==
    /\ main_pc = "update_gradle"
    /\ main_pc' = IF args.update_gradle /\ ~ args.skip_build THEN "gradle" ELSE "build"
    /\ UNCHANGED <<args, steps, exit_code, gradle_vars>>

\* GradleReturns as it would be if GradleError were logged and the run went on
GradleReturnsAndGoesOn ==
    /\ main_pc = "gradle"
    /\ pc = "done"
    /\ steps' = Append(steps, Step("gradle", GradleOutcome))
    /\ main_pc' = "build"
    /\ UNCHANGED <<args, exit_code, gradle_vars>>

\* main.py lines 480-489: GradleError returns 1; a call that returns, with
\* True or with False, lets the run go on
GradleReturns ==
    /\ main_pc = "gradle"
    /\ pc = "done"
    /\ steps' = Append(steps, Step("gradle", GradleOutcome))
    /\ IF result = "raised"
       THEN MainExit(1)
       ELSE main_pc' = "build" /\ UNCHANGED exit_code
    /\ UNCHANGED <<args, gradle_vars>>

\* main.py lines 491-503, 515-517 and 521-522: build_flutter_app() returns the
\* output file or raises BuildError
Build ==
    /\ main_pc = "build"
    /\ IF ~ args.skip_build
       THEN \E built \in BOOLEAN :
               /\ steps' = Append(steps, Step("build", IF built THEN "ok" ELSE "raised"))
               /\ IF built
                  THEN main_pc' = "verify" /\ UNCHANGED exit_code
                  ELSE MainExit(1)
       ELSE MainExit(0) /\ UNCHANGED steps
    /\ UNCHANGED <<args, gradle_vars>>

\* main.py lines 504-522: verify_signature() returns True, returns a false
\* value or raises SignatureError
Verify ==
    /\ main_pc = "verify"
    /\ IF args.verify
       THEN \E outcome \in {"ok", "False", "raised"} :
               /\ steps' = Append(steps, Step("verify", outcome))
               /\ MainExit(IF outcome = "ok" THEN 0 ELSE 1)
       ELSE MainExit(0) /\ UNCHANGED steps
    /\ UNCHANGED <<args, gradle_vars>>

\* main.py lines 524-526: KeyboardInterrupt, at any point of the run
Interrupt ==
    /\ main_pc \notin {"none", "exit"}
    /\ MainExit(130)
    /\ UNCHANGED <<args, steps, gradle_vars>>

\* a keystore path given on the command line or in the configuration
GivenKeystorePath == "keys/upload.jks"

\* main.py lines 117-262: the command lines; a keystore path counts only with
\* --non-interactive or --config (lines 443-451)
MainArgs ==
    { a \in [ config : BOOLEAN,
              only_update_gradle : BOOLEAN,
              non_interactive : BOOLEAN,
              skip_build : BOOLEAN,
              update_gradle : BOOLEAN,
              verify : BOOLEAN,
              keystore_path : {"", GivenKeystorePath},
              signing_config_name : {"release", "production"} ] :
        a.keystore_path # "" => a.non_interactive \/ a.config }

\* the build scripts main() is run on
MainDocuments ==
    { Document("android {", "buildTypes {", "release {", GroovyDebugBody),
      MarkedDocument, NoAndroidDocument }

\* the projects main() is run on: with and without key.properties, without
\* android/app, without android
InitMain ==
    /\ \/ \E layout \in {"gradle", "nokey"}, doc \in MainDocuments :
             dirs = DirsOf(layout) /\ files = FilesOf(layout, doc)
       \/ dirs = DirsOf("noapp") /\ files = << >>
       \/ dirs = {ProjectPath} /\ files = << >>
    /\ pc = "idle"
    /\ signing_config_name = ""
    /\ build_gradle_path = ""
    /\ build_gradle_content = ""
    /\ modified_content = ""
    /\ result = "none"
    /\ err = NoError
    /\ log = << >>
    /\ io = << >>
    /\ pre = files
    /\ calls = 0
    /\ faults = 0
    /\ main_pc = "config"
    /\ args \in MainArgs
    /\ steps = << >>
    /\ exit_code = -1

NextMain ==
    \/ LoadConfig
    \/ OnlyUpdateGradle
    \/ MainCall
    \/ WriteBackup
    \/ WritePrimary
    \/ OnlyUpdateGradleReturns
    \/ NonInteractive
    \/ CheckDependencies
    \/ GenerateKeystore
    \/ CreateKeyProperties
    \/ UpdateGradle
    \/ GradleReturns
    \/ Build
    \/ Verify
    \/ Interrupt

SpecMain == InitMain /\ [][NextMain]_vars

-----------------------------------------------------------------------------
(* What the claims speak of *)

\* this invocation has written path, and the write succeeded
Wrote(path) == \E k \in DOMAIN io : io[k] = Open("w", path, TRUE)

WroteBackup == Wrote(BackupPath(build_gradle_path))

\* this invocation patched the build file and returned True
SuccessfulPatch == pc = "done" /\ result = "True" /\ Wrote(build_gradle_path)

\* this invocation has opened no file for writing
NoWrites == \A k \in DOMAIN io : io[k].mode # "w"

\* the rendering this invocation chose
ChosenDialect == Dialect(is_kotlin_dsl(build_gradle_path), build_gradle_content)

\* the text now in the build file
FinalText == files[build_gradle_path]

\* the end of every text built by Document
DocumentTail == "}\n    }\n}\n"

EndsWith(s, p) == Len(p) <= Len(s) /\ SubSeq(s, Len(s) - Len(p) + 1, Len(s)) = p

\* the "{" of the release block of buildTypes, in either form; 0 if none
BuildTypeReleaseOpen(text) ==
    LET B == {i \in 1..Len(text) : StartsAt(text, i, "buildTypes")}
        O == IF B = {} THEN {}
             ELSE ({ReleaseOpenAt(text, i) : i \in Min(B)..Len(text)}
                   \cup {GetByNameOpenAt(text, i) : i \in Min(B)..Len(text)}) \ {0}
    IN  IF O = {} THEN 0 ELSE Min(O)

HasBuildTypeRelease(text) == BuildTypeReleaseOpen(text) > 0 /\ EndsWith(text, DocumentTail)

\* the contents of the release block of buildTypes in a text that ends as
\* Document has it end; "" if the text has no such block
BuildTypeRelease(text) ==
    IF HasBuildTypeRelease(text)
    THEN SubSeq(text, BuildTypeReleaseOpen(text) + 1, Len(text) - Len(DocumentTail))
    ELSE ""

\* a signing reference to the configuration name, as each dialect writes it
SigningRef(dialect, name) ==
    IF dialect = "pure"
    THEN "signingConfig = signingConfigs.getByName(\"" \o name \o "\")"
    ELSE "signingConfig signingConfigs." \o name

\* the opening of the declaration of the configuration name, as each dialect
\* writes it
Declaration(dialect, name) ==
    IF dialect = "pure"
    THEN "create(\"" \o name \o "\") {"
    ELSE name \o " {"

\* the text holds "signingConfigs {" and, after it, the declaration
Declares(text, dialect, name) ==
    \E i \in 1..Len(text) :
        /\ StartsAt(text, i, "signingConfigs {")
        /\ \E j \in (i + 1)..Len(text) : StartsAt(text, j, Declaration(dialect, name))

-----------------------------------------------------------------------------
(* Claims C1 - C10 *)

\* C1: idempotence.  An invocation that reads a document which holds the
\* marker "signingConfigs {", or which the invocation before it produced by
\* a successful patch, returns True, leaves every file as it is and opens
\* no file for writing.
C1_Idempotence ==
    [][ ( /\ calls' = calls + 1
          /\ io' # << >>
          /\ io'[1].ok
          /\ \/ HasSigningConfigs(build_gradle_content')
             \/ SuccessfulPatch )
        => ( /\ pc' = "done"
             /\ result' = "True"
             /\ files' = files
             /\ Len(io') = 1 ) ]_vars

\* C2: backup fidelity.  Once this invocation has written the .bak file, the
\* .bak file holds the text the build file gave when it was read at the start
\* of the invocation, and not the patched text.
C2_BackupFidelity ==
    WroteBackup =>
        /\ files[BackupPath(build_gradle_path)] = ReadText(pre[build_gradle_path])
        /\ files[BackupPath(build_gradle_path)] # modified_content

\* C2 happens: a backup beside a build file that now holds the patched text
C2_Witness ==
    /\ SuccessfulPatch
    /\ WroteBackup
    /\ FinalText = modified_content
    /\ FinalText # files[BackupPath(build_gradle_path)]

\* the invocation ended at line 231: no android block
RaisedMissingAndroidBlock ==
    /\ pc = "done"
    /\ result = "raised"
    /\ err.message = "Could not find android { block in " \o build_gradle_path

\* C3: no mutation on fatal failure.  When the invocation raises because the
\* build file has no android block, every file, a .bak file of an earlier run
\* included, is as it was when the invocation started, and no file was opened
\* for writing.
C3_NoMutationOnMissingAndroidBlock ==
    RaisedMissingAndroidBlock => files = pre /\ NoWrites

\* C3 happens: the error is raised beside a .bak file of an earlier run
C3_Witness ==
    /\ RaisedMissingAndroidBlock
    /\ BackupPath(build_gradle_path) \in DOMAIN files
    /\ files[BackupPath(build_gradle_path)] = StaleBackup

\* C4: variant rewiring.  After a successful patch of a document whose release
\* block of buildTypes referred to the debug configuration in the dialect's
\* own syntax, that block refers to the requested name and no longer to debug,
\* in each dialect and for every name.
C4_VariantRewiring ==
    ( /\ SuccessfulPatch
      /\ Contains(BuildTypeRelease(build_gradle_content),
                  SigningRef(ChosenDialect, "debug")) )
    => /\ Contains(BuildTypeRelease(FinalText),
                   SigningRef(ChosenDialect, signing_config_name))
       /\ ~ Contains(BuildTypeRelease(FinalText), SigningRef(ChosenDialect, "debug"))

\* C5: the configuration name is honoured.  After a successful patch the build
\* file holds a signingConfigs block that declares the requested name, in each
\* dialect and for every name.
C5_NameHonoured ==
    SuccessfulPatch => Declares(FinalText, ChosenDialect, signing_config_name)

\* C6: append path.  After a successful patch of a Groovy build.gradle whose
\* release block of buildTypes held no signing reference, that block holds the
\* line "signingConfig signingConfigs.N", and a .bak file that was written
\* holds the text that was read.
C6_AppendPath ==
    ( /\ SuccessfulPatch
      /\ WroteBackup
      /\ build_gradle_path = gradle_path
      /\ HasBuildTypeRelease(build_gradle_content)
      /\ ~ Contains(BuildTypeRelease(build_gradle_content), "signingConfig") )
    => /\ Contains(BuildTypeRelease(FinalText),
                   "signingConfig signingConfigs." \o signing_config_name \o "\n")
       /\ files[BackupPath(build_gradle_path)] = build_gradle_content

\* the "{" of the block lines 238-301 would locate in the text that was read
LocatedOpen(raw) ==
    LET R == {ReleaseOpenAt(raw, i) : i \in 1..Len(raw)} \ {0}
        G == {GetByNameOpenAt(raw, i) : i \in 1..Len(raw)} \ {0}
        Closed(S) == {o \in S : IndexFrom(raw, "}", o + 1) > 0}
    IN  IF Closed(R) # {} THEN Min(Closed(R))
        ELSE IF Closed(G) # {} THEN Min(Closed(G))
        ELSE 0

\* C7: frame of a patch.  After a successful patch the build file is the text
\* that was read, with some text put in after the "{" of android and with
\* some other contents between the braces of the one located release block;
\* no other character is added, removed or changed.
C7_Frame ==
    SuccessfulPatch =>
        LET raw == build_gradle_content
            p == AndroidInsertPos(raw)
            o == LocatedOpen(raw)
            head == SubSeq(raw, 1, p)
            middle == SubSeq(raw, p + 1, IF o = 0 THEN Len(raw) ELSE o)
            tail == IF o = 0 THEN "" ELSE SubSeq(raw, IndexFrom(raw, "}", o + 1), Len(raw))
        IN  /\ StartsAt(FinalText, 1, head)
            /\ EndsWith(FinalText, tail)
            /\ \E q \in (Len(head) + 1)..(Len(FinalText) - Len(tail) - Len(middle) + 1) :
                   StartsAt(FinalText, q, middle)

\* C8: rollback.  When the write of the patched text fails, the invocation
\* opens the build file once more to write the text it read back, and after a
\* restoring write that succeeds the build file holds that text.
C8_WriteFailureRollback ==
    \A k \in DOMAIN io :
        (pc = "done" /\ io[k] = Open("w", build_gradle_path, FALSE))
        => \E j \in DOMAIN io :
              /\ j > k
              /\ io[j].mode = "w"
              /\ io[j].path = build_gradle_path
              /\ io[j].ok => FinalText = build_gradle_content

\* the invocation started in a project with android/app and no key.properties
StartedWithoutKeyProperties ==
    /\ pc = "done"
    /\ app_dir \in dirs
    /\ key_properties_path \notin DOMAIN pre

\* C9: a missing key.properties is a soft no-op.  The invocation returns False
\* and raises nothing, every file is as it was and no file was opened.
C9_MissingKeyPropertiesNoOp ==
    StartedWithoutKeyProperties =>
        /\ result = "False"
        /\ err = NoError
        /\ files = pre
        /\ io = << >>

\* C9 happens: False is returned beside a build file and an older .bak file
C9_Witness ==
    /\ StartedWithoutKeyProperties
    /\ result = "False"
    /\ gradle_path \in DOMAIN files
    /\ BackupPath(gradle_path) \in DOMAIN files

\* C10: missing project structure.  Without android/app the invocation raises
\* GradleError, the error has a file path attribute that holds the path of
\* android/app, an error is logged, and no file is opened or changed.
C10_MissingAppDirError ==
    (pc = "done" /\ app_dir \notin dirs)
    => /\ result = "raised"
       /\ err.type = "GradleError"
       /\ \E k \in DOMAIN log : log[k].level = "error"
       /\ files = pre
       /\ io = << >>
       /\ "file_path" \in DOMAIN err
       /\ err.file_path = app_dir

-----------------------------------------------------------------------------
(* Claims C11 - C20 *)

\* the text that was read has an android block, no marker, and neither a
\* release block nor a getByName("release") block
ReadWithoutVariantBlock ==
    /\ pc = "done"
    /\ io # << >>
    /\ io[1].ok
    /\ ~ HasSigningConfigs(build_gradle_content)
    /\ AndroidInsertPos(build_gradle_content) >= 0
    /\ LocatedOpen(build_gradle_content) = 0

\* C11: a variant block that is not found is not fatal.  When the text read
\* has an android block but no release block of either form, and no write
\* fails, the invocation returns True, the .bak file holds the text read, and
\* the build file holds that text with the signing block, which declares the
\* requested name, put in after the "{" of android.
C11_VariantNotFoundNonFatal ==
    ( /\ ReadWithoutVariantBlock
      /\ \A k \in DOMAIN io : io[k].ok )
    => /\ result = "True"
       /\ WroteBackup
       /\ Wrote(build_gradle_path)
       /\ files[BackupPath(build_gradle_path)] = build_gradle_content
       /\ FinalText # build_gradle_content
       /\ StartsAt(FinalText, 1,
                   SubSeq(build_gradle_content, 1, AndroidInsertPos(build_gradle_content)))
       /\ Declares(FinalText, ChosenDialect, signing_config_name)

\* C11 happens: the warning of line 303 was logged and the call returned True
C11_Witness ==
    /\ ReadWithoutVariantBlock
    /\ result = "True"
    /\ WroteBackup
    /\ Wrote(build_gradle_path)
    /\ \E k \in DOMAIN log :
          log[k] = Log("warning", "Could not find release { block in " \o build_gradle_path)

\* the markers of lines 94-97 and 99: variable declarations, Kotlin imports,
\* collection initialization, type declarations, the plugins block
PureDialectMarkers == {"val ", "import kotlin.", "= listOf", ": String", "plugins {"}

\* C12: hybrid classification.  After a successful patch with the default
\* name of a build.gradle.kts whose text held none of the five markers of the
\* pure dialect, the rendering chosen is the hybrid one: the build file reads
\* the key alias as keystoreProperties['keyAlias'] and holds no loadProperties.
C12_HybridClassification ==
    ( /\ SuccessfulPatch
      /\ build_gradle_path = gradle_kts_path
      /\ signing_config_name = "release"
      /\ \A m \in PureDialectMarkers : ~ Contains(build_gradle_content, m) )
    => /\ ChosenDialect = "hybrid"
       /\ Contains(FinalText, "keystoreProperties['keyAlias']")
       /\ ~ Contains(FinalText, "loadProperties")

\* the text read is pure Kotlin and writes its release variant in the
\* accessor form, with a reference to the debug configuration in it
ReadAccessorForm ==
    /\ build_gradle_path = gradle_kts_path
    /\ ChosenDialect = "pure"
    /\ LET o == BuildTypeReleaseOpen(build_gradle_content)
       IN  o > 0 /\ \E i \in 1..o : GetByNameOpenAt(build_gradle_content, i) = o
    /\ Contains(BuildTypeRelease(build_gradle_content), SigningRef("pure", "debug"))

\* C13: the accessor form of the variant.  After a successful patch of a pure
\* Kotlin build.gradle.kts whose release variant is getByName("release") { }
\* with a reference to getByName("debug"), the block refers to the requested
\* name and no longer to debug, and the build file holds the loadProperties
\* function with its check that the file exists.
C13_NamedAccessorForm ==
    (SuccessfulPatch /\ ReadAccessorForm)
    => /\ Contains(BuildTypeRelease(FinalText), SigningRef("pure", signing_config_name))
       /\ ~ Contains(BuildTypeRelease(FinalText), SigningRef("pure", "debug"))
       /\ Contains(FinalText, "fun loadProperties(file: java.io.File): Properties {")
       /\ Contains(FinalText, "if (file.isFile) {")

\* C13 happens: an accessor-form block now refers to a name other than the default
C13_Witness ==
    /\ SuccessfulPatch
    /\ ReadAccessorForm
    /\ signing_config_name = "production"
    /\ Contains(BuildTypeRelease(FinalText), SigningRef("pure", "production"))

\* C14: the template comment is removed.  After a successful patch of a
\* document whose release block of buildTypes held a reference to the debug
\* configuration in the dialect's own syntax and a "// TODO: ... signing
\* config ..." comment, that block holds the comment no longer, in each
\* dialect and for every name.
C14_TemplateCommentRemoved ==
    ( /\ SuccessfulPatch
      /\ Contains(BuildTypeRelease(build_gradle_content), SigningRef(ChosenDialect, "debug"))
      /\ Contains(BuildTypeRelease(build_gradle_content), TodoComment) )
    => ~ Contains(BuildTypeRelease(FinalText), "// TODO:")

\* which of the three successful outcomes the invocation ended with
Outcome ==
    IF pc = "done" /\ result # "raised" /\ io # << >> /\ io[1].ok
    THEN IF ~ Wrote(build_gradle_path) THEN "AlreadyPresent"
         ELSE IF \E k \in DOMAIN log : log[k].level = "warning"
                                       /\ StartsAt(log[k].msg, 1, "Could not find release { block")
              THEN "AppliedWithoutVariantWiring"
         ELSE "Applied"
    ELSE "none"

\* C15: tri-state outcome.  Two invocations that end with different
\* successful outcomes return different values.
C15_TriStateOutcome ==
    [][ ( /\ Outcome # "none"
          /\ Outcome' # "none"
          /\ Outcome' # Outcome )
        => result' # result ]_vars

\* the build file of the project this invocation was not given
UntouchedBuildFile ==
    IF build_gradle_path = GradlePathOf(ProjectPath)
    THEN GradlePathOf(OtherProject)
    ELSE GradlePathOf(ProjectPath)

\* the declaration as tests/test_custom_signing_config.py 200-201 looks for it
DeclaresFirst(text, name) == Contains(text, "signingConfigs {\n        " \o name \o " {")

\* C16: invocations are independent.  After a successful patch of one
\* project, the build file and the .bak file of the other project are as they
\* were when the invocation started (as an earlier invocation left them), and
\* the file just patched declares the name of this invocation and no other.
C16_Independence ==
    SuccessfulPatch =>
        LET a == UntouchedBuildFile
        IN  /\ files[a] = pre[a]
            /\ BackupPath(a) \in DOMAIN files <=> BackupPath(a) \in DOMAIN pre
            /\ BackupPath(a) \in DOMAIN pre => files[BackupPath(a)] = pre[BackupPath(a)]
            /\ \A n \in Names : DeclaresFirst(FinalText, n) <=> n = signing_config_name

\* C16 happens: both projects are patched, each with a name of its own
C16_Witness ==
    /\ SuccessfulPatch
    /\ WroteBackup
    /\ BackupPath(UntouchedBuildFile) \in DOMAIN files
    /\ \E n \in Names \ {signing_config_name} :
          /\ DeclaresFirst(files[UntouchedBuildFile], n)
          /\ ~ DeclaresFirst(files[UntouchedBuildFile], signing_config_name)

\* C17: the rendering the unit test looks for.  After a successful patch of
\* the build.gradle.kts template with the default name, the build file holds
\* "signingConfigs {", create("release"), the assignment
\* keyAlias = keystoreProperties["keyAlias"] as String, and
\* signingConfig = signingConfigs.getByName("release").
C17_KotlinCredentialsRendering ==
    ( /\ SuccessfulPatch
      /\ build_gradle_path = gradle_kts_path
      /\ build_gradle_content = KotlinTemplateDocument
      /\ signing_config_name = "release" )
    => /\ Contains(FinalText, "signingConfigs {")
       /\ Contains(FinalText, "create(\"release\")")
       /\ Contains(FinalText, "keyAlias = keystoreProperties[\"keyAlias\"] as String")
       /\ Contains(FinalText, "signingConfig = signingConfigs.getByName(\"release\")")

\* C18: the release block is located by its matching brace.  After a
\* successful patch of a Groovy build.gradle whose release block of buildTypes
\* holds a block of its own before a reference to the debug configuration,
\* the contents of the release block, up to its matching "}", are what they
\* were with the reference made to name the requested configuration: the
\* inner block is whole and nothing is put into it.  (Names that end in
\* "release" are left to C4.)
C18_ScopeAwareVariantLocation ==
    ( /\ SuccessfulPatch
      /\ build_gradle_path = gradle_path
      /\ ~ EndsWith(signing_config_name, "release")
      /\ Contains(BuildTypeRelease(build_gradle_content), "{")
      /\ Contains(BuildTypeRelease(build_gradle_content), SigningRef("groovy", "debug")) )
    => BuildTypeRelease(FinalText)
       = StrReplace(BuildTypeRelease(build_gradle_content),
                    SigningRef("groovy", "debug"),
                    SigningRef("groovy", signing_config_name))

\* the text read holds no release block with an empty or blank body
ReadNoBlankBlock == ReadText(pre[build_gradle_path]) \notin BlankDocuments

\* C19: the wiring leaves the inserted block alone.  After a successful patch
\* the build file holds the signing block exactly as it was rendered for the
\* dialect and the name, for every name, the default included.
C19_InsertedBlockAsRendered ==
    (SuccessfulPatch /\ ReadNoBlankBlock)
    => Contains(FinalText, key_properties_code(ChosenDialect, signing_config_name))

\* C20: an android block that is never closed is rejected.  When the text
\* read holds "android {" and no "}" at all, the invocation raises GradleError
\* and opens no file for writing.
C20_UnbalancedOuterBlockRejected ==
    ( /\ pc = "done"
      /\ io # << >>
      /\ io[1].ok
      /\ AndroidInsertPos(build_gradle_content) >= 0
      /\ ~ Contains(build_gradle_content, "}") )
    => /\ result = "raised"
       /\ err.type = "GradleError"
       /\ files = pre
       /\ \A k \in DOMAIN io : io[k].mode # "w"

-----------------------------------------------------------------------------
(* Claims C21 - C30 *)

\* the rendered signing block from its start to its "signingConfigs {"
RenderedHead(dialect, name) ==
    LET code == key_properties_code(dialect, name)
        k == Min({i \in 1..Len(code) : StartsAt(code, i, "signingConfigs {")})
    IN  SubSeq(code, 1, k + 15)

\* the matches of r"android\s*\{" in the text, by the position they begin at
AndroidMatches(s) == {i \in 1..Len(s) : AndroidMatchAt(s, i) > 0}

WriteOpens(path) == {k \in DOMAIN io : io[k].mode = "w" /\ io[k].path = path}

\* C22: write ordering.  The build file is opened for writing only after the
\* .bak file was, whether that write succeeded or not.  An invocation whose
\* backup write failed logs that as a warning and no error, goes on to open
\* the build file, and returns True when that write succeeds; its build file
\* then holds the patched text.
C22_WriteOrdering ==
    LET backup_path == BackupPath(build_gradle_path)
    IN  /\ \A k \in WriteOpens(build_gradle_path) :
              \E j \in WriteOpens(backup_path) : j < k
        /\ \A j \in WriteOpens(backup_path) :
              (pc = "done" /\ ~ io[j].ok)
              => /\ \E k \in DOMAIN log :
                       log[k] = Log("warning", "Failed to create backup of build.gradle: " \o OSErrorText)
                 /\ \E k \in WriteOpens(build_gradle_path) :
                       /\ k > j
                       /\ io[k].ok => result = "True" /\ FinalText = modified_content
                       /\ ~ io[k].ok => err.message = "Failed to write to " \o build_gradle_path

\* C22 happens: the backup write failed, and the invocation patched the build
\* file and returned True
C22_Witness ==
    /\ SuccessfulPatch
    /\ \E j \in WriteOpens(BackupPath(build_gradle_path)) : ~ io[j].ok
    /\ FinalText = modified_content
    /\ FinalText # build_gradle_content

C24_SuccessImpliesWiring ==
    ( /\ SuccessfulPatch
      /\ ~ EndsWith(signing_config_name, "release")
      /\ HasBuildTypeRelease(build_gradle_content)
      /\ LocatedOpen(build_gradle_content) = BuildTypeReleaseOpen(build_gradle_content) )
    => \E dialect \in {"groovy", "pure"} :
          Contains(BuildTypeRelease(FinalText), SigningRef(dialect, signing_config_name))

\* the GradleError lines 333-342 raise for an exception with the text details
Wrapped(details) ==
    GradleError("Unexpected error during build.gradle modification", details, build_gradle_path)

\* this invocation ended on a failure to read or to write the build file
BuildFileFault ==
    /\ pc = "done"
    /\ \E k \in DOMAIN io : io[k].path = build_gradle_path /\ ~ io[k].ok

C26_IdempotencyFirst ==
    ( /\ pc = "done"
      /\ ChosenPath \in DOMAIN pre
      /\ HasSigningConfigs(ReadText(pre[ChosenPath]))
      /\ io = << >> \/ io[1].ok )
    => /\ result = "True"
       /\ err = NoError
       /\ files = pre

\* C27: the properties loading idiom.  After a successful patch the signing
\* block in the build file loads key.properties as its dialect is said to:
\* the pure Kotlin block tests that the file is there and logs a warning when
\* it is not; the Groovy and the hybrid block call load() with no test that
\* the file exists.
C27_PropertiesLoadingIdiom ==
    (SuccessfulPatch /\ ReadNoBlankBlock) =>
        IF ChosenDialect = "pure"
        THEN /\ Contains(FinalText, "if (file.isFile) {")
             /\ Contains(FinalText, "logger.warn(\"Properties file not found: ${file.absolutePath}\")")
        ELSE /\ Contains(FinalText, "keystoreProperties.load(new FileInputStream(keystorePropertiesFile))")
             /\ ~ Contains(FinalText, "keystorePropertiesFile.exists()")

\* the place of each step in the workflow of main.py lines 310-317
Rank(step) ==
    CASE step = "config"       -> 0
      [] step = "dependencies" -> 1
      [] step = "keystore"     -> 2
      [] step = "properties"   -> 3
      [] step = "gradle"       -> 4
      [] step = "build"        -> 5
      [] OTHER                 -> 6

C29_GradleStepGating ==
    ( /\ main_pc \in {"build", "verify", "exit"}
      /\ ~ args.only_update_gradle
      /\ exit_code # 130
      /\ \E i \in DOMAIN steps : steps[i] = Step("properties", "ok") )
    => ( (\E i \in DOMAIN steps : steps[i].step = "gradle") <=> args.update_gradle )

=============================================================================
